---- MODULE Spec2Model ----
(***************************************************************************)
(* matcall: MatlabCaller.call (matcall/matcall.py) as a state machine.     *)
(*                                                                         *)
(* Strings are TLA+ strings, built by concatenation as the code builds     *)
(* them.  A Python value that may be None is a sequence of length 0 (None) *)
(* or 1 (the value).  A dict is the sequence of its keys (insertion        *)
(* order); the value bound to a name is InValue(name).                     *)
(***************************************************************************)
EXTENDS Naturals, Sequences, FiniteSets, TLC

VARIABLES
    pc,          \* position of the running call
    py3,         \* the interpreter running the module is Python 3
    self,        \* the MatlabCaller's fields
    args,        \* the arguments of the running call
    input_dict,  \* the caller's input mapping (mutated by delete_inputs)
    tempdir,     \* local variable tempdir of call
    dirs,        \* directories that exist on disk
    files,       \* files that exist on disk, as <<directory, name>>
    indata,      \* content of input_vars.mat
    outdata,     \* content of output_vars.mat
    callstr,     \* local variable callstr of call
    written,     \* names of the files the running call has written
    spawned,     \* child processes the running call has spawned
    outcome,     \* what the interpreter did in the running call
    result,      \* local variable result of call
    exc,         \* the exception the running call raised ("" for none)
    h5,          \* a version 7.3 variable: path -> node of its HDF5 tree
    h5sq,        \* squeeze_me of the decode of h5
    h5res,       \* what convert_mat_7_3_to_struct gave for h5
    h5pc         \* position of the decode of h5

vars == <<pc, py3, self, args, input_dict, tempdir, dirs, files, indata,
          outdata, callstr, written, spawned, outcome, result, exc,
          h5, h5sq, h5res, h5pc>>

callVars == <<pc, py3, self, args, input_dict, tempdir, dirs, files, indata,
              outdata, callstr, written, spawned, outcome, result, exc>>

h5Vars == <<h5, h5sq, h5res, h5pc>>

----------------------------------------------------------------------------
(* Bounds *)

\* longest input_order list drawn for the command synthesis
MaxOrder == 2

\* longest output_names list drawn
MaxOut == 2

\* most nodes of a version 7.3 variable's tree
MaxNodes == 4

----------------------------------------------------------------------------
(* Python values *)

None == <<>>

Some(v) == <<v>>

IsNone(o) == Len(o) = 0

Val(o) == o[1]

Range(s) == {s[i] : i \in 1..Len(s)}

\* s[:-n]
DropLast(s, n) == SubSeq(s, 1, Len(s) - n)

\* k.startswith(c)
StartsWith(k, c) == Len(k) >= Len(c) /\ SubSeq(k, 1, Len(c)) = c

EndsWith(k, c) == Len(k) >= Len(c) /\ SubSeq(k, Len(k) - Len(c) + 1, Len(k)) = c

\* the places where sub occurs in s
Occurrences(s, sub) ==
    {i \in 1..(Len(s) + 1 - Len(sub)) : SubSeq(s, i, i + Len(sub) - 1) = sub}

Contains(s, sub) == Occurrences(s, sub) # {}

\* os.path.join(d, name)
join(d, name) == d \o "/" \o name

\* np.squeeze on a shape: the dimensions of length 1 are removed
IsNotSingleton(d) == d # 1

Squeeze(shape) == SelectSeq(shape, IsNotSingleton)

----------------------------------------------------------------------------
(* The values the calls are made with *)

func == "do_something"

InputNames == {"X", "y"}

\* the arrays of the self-test, X = randn(5, 3) and y = randn(5, 1), smaller
InValue(name) ==
    IF name = "X" THEN [shape |-> <<2, 3>>, data |-> "X"]
                  ELSE [shape |-> <<2, 1>>, data |-> "y"]

ValidVersions == {"4", "6", "7", "7.3"}

FlatVersions == {"4", "6", "7"}

Versions == ValidVersions \cup {"4.2"}

FreshDir == "/tmp/tmpabc"

SuppliedDir == "/tmp/ws"

\* delete_inputs: a bool or a list of names
DelBool(b) == [kind |-> "bool", b |-> b, names |-> <<>>]

DelList(l) == [kind |-> "list", b |-> FALSE, names |-> l]

\* Python's truth value of delete_inputs
Truthy(d) == IF d.kind = "bool" THEN d.b ELSE Len(d.names) > 0

OutputLists == {SubSeq(<<"z", "w", "v">>, 1, n) : n \in 0..MaxOut}

----------------------------------------------------------------------------
(* MatlabCaller._create_callstring *)

CreateCallstring(s) ==
    IF s.use_octave
    THEN "octave --no-gui --eval \""
    ELSE "matlab -nosplash"
         \o (IF s.single_comp_thread THEN " -singleCompThread" ELSE "")
         \o (IF s.no_jvm THEN " -nojvm" ELSE "")
         \o (IF s.no_display THEN " -nodisplay" ELSE "")
         \o " -r \""

\* the addpath statements, one per path, in list order
RECURSIVE AddPaths(_)
AddPaths(paths) ==
    IF paths = <<>> THEN ""
    ELSE "addpath('" \o Head(paths) \o "'); " \o AddPaths(Tail(paths))

\* one entry of the argument list, with its trailing comma
InputItem(a, k) ==
    IF ~IsNone(a.kwarg_names) /\ k \in Val(a.kwarg_names)
    THEN "'" \o k \o "'," \o k \o ","
    ELSE k \o ","

RECURSIVE InputLoop(_, _)
InputLoop(a, order) ==
    IF order = <<>> THEN ""
    ELSE InputItem(a, Head(order)) \o InputLoop(a, Tail(order))

HasInputs(d) == Len(d) > 0

\* input_list: the loop over input_order, then input_list[:-1] (faulty
\* variant first: the trailing comma is kept)
InputListKeepTrailing(a, d) ==
    IF HasInputs(d)
    THEN InputLoop(a, IF IsNone(a.input_order) THEN d ELSE Val(a.input_order))
    ELSE ""

InputList(a, d) ==
    IF HasInputs(d)
    THEN DropLast(InputLoop(a, IF IsNone(a.input_order) THEN d
                                ELSE Val(a.input_order)), 1)
    ELSE ""

\* the loop over output_names: what it appends to callstr and to output_list
RECURSIVE OutputLoopCall(_)
OutputLoopCall(names) ==
    IF names = <<>> THEN ""
    ELSE Head(names) \o ", " \o OutputLoopCall(Tail(names))

RECURSIVE OutputLoopList(_)
OutputLoopList(names) ==
    IF names = <<>> THEN ""
    ELSE Head(names) \o " " \o OutputLoopList(Tail(names))

\* the guard of line 178
WantsOutputs(a) == ~IsNone(a.output_names) /\ Len(Val(a.output_names)) > 0

\* the output target (faulty variant first: the trailing ", " is kept)
OutputPrefixKeepTrailing(a) ==
    IF WantsOutputs(a)
    THEN " [" \o OutputLoopCall(Val(a.output_names)) \o "] = "
    ELSE ""

OutputPrefix(a) ==
    IF WantsOutputs(a)
    THEN DropLast(" [" \o OutputLoopCall(Val(a.output_names)), 2) \o "] = "
    ELSE ""

\* output_list, with output_list[:-1]
OutputList(a) ==
    IF WantsOutputs(a)
    THEN DropLast(OutputLoopList(Val(a.output_names)), 1)
    ELSE ""

\* callstr up to and including the post_call fragment (lines 147-192)
CallHead(s, a, d, td) ==
    CreateCallstring(s)
    \o AddPaths(s.addpath)
    \o (IF HasInputs(d) THEN "load " \o join(td, "input_vars.mat") \o ";" ELSE "")
    \o (IF IsNone(a.pre_call) THEN "" ELSE " " \o Val(a.pre_call) \o ";")
    \o OutputPrefix(a)
    \o func \o "(" \o InputList(a, d) \o ");"
    \o (IF IsNone(a.post_call) THEN "" ELSE " " \o Val(a.post_call) \o ";")

\* the save statement of line 199
SaveStatement(a, td) ==
    " save -v" \o a.mat_version \o " " \o join(td, "output_vars.mat")
    \o " " \o OutputList(a) \o ";"

\* the exception lines 147-202 raise, "" when they raise none: savemat
\* on a value it cannot encode, len(None) at line 194, the assert of 198
SynthRaises(a, d, saveok) ==
    IF HasInputs(d) /\ ~saveok THEN "SerializationError"
    ELSE IF IsNone(a.output_names) THEN "TypeError"
    ELSE IF Len(Val(a.output_names)) > 0 /\ a.mat_version \notin ValidVersions
         THEN "AssertionError"
    ELSE ""

\* callstr at line 202
CallString(s, a, d, td) ==
    CallHead(s, a, d, td)
    \o (IF Len(Val(a.output_names)) > 0 THEN SaveStatement(a, td) ELSE "")
    \o " exit()\""

----------------------------------------------------------------------------
(* Version 7.3 files: iter_struct and convert_mat_7_3_to_struct *)

\* An HDF5 tree is a function from paths (sequences of keys, <<>> the
\* variable itself) to nodes.
GroupNode == [kind |-> "group", dtype |-> "", shape |-> <<>>, data |-> ""]

Dataset(dtype, shape, data) ==
    [kind |-> "dataset", dtype |-> dtype, shape |-> shape, data |-> data]

\* list(parent) of a group: the names of its children
ChildKeys(tree, p) ==
    {q[Len(p) + 1] : q \in {r \in DOMAIN tree :
                              Len(r) = Len(p) + 1 /\ SubSeq(r, 1, Len(p)) = p}}

\* line 45: the keys the walk looks at
IsWalkedKey(k) == ~StartsWith(k, "#") /\ ~StartsWith(k, "_")

\* line 64: child.dtype != np.object (faulty variant first: every leaf kept)
KeepsLeafAlways(child) == TRUE

KeepsLeaf(child) == child.dtype # "object"

\* lines 65-68
LeafValue(child, squeeze_me) ==
    [kind |-> "array",
     shape |-> IF squeeze_me THEN Squeeze(child.shape) ELSE child.shape,
     data |-> child.data]

\* line 54: setattr(output, k, mat_struct())
StructValue == [kind |-> "struct", shape |-> <<>>, data |-> ""]

\* iter_struct on the group at path p: the attributes it sets, as
\* <<path, value>> pairs.  The recursive call of lines 55-57 passes depth
\* and verbose only, so the nested walk runs with the default squeeze_me.
DefaultSqueezeMe == TRUE

RECURSIVE IterStruct(_, _, _)
IterStruct(tree, p, squeeze_me) ==
    UNION {LET c == Append(p, k)
               child == tree[c]
           IN  IF child.kind = "group"
               THEN {<<c, StructValue>>} \cup IterStruct(tree, c, DefaultSqueezeMe)
               ELSE IF child.kind = "dataset" /\ KeepsLeaf(child)
               THEN {<<c, LeafValue(child, squeeze_me)>>}
               ELSE {}
           : k \in {x \in ChildKeys(tree, p) : IsWalkedKey(x)}}

\* the mat_struct as a function from attribute paths to values
AsFunction(pairs) ==
    [c \in {pr[1] : pr \in pairs} |-> (CHOOSE pr \in pairs : pr[1] = c)[2]]

\* convert_mat_7_3_to_struct.  f[var_name] that is a dataset makes
\* list(parent) its rows (arrays, not strings), and k.startswith raises.
Convert(tree, squeeze_me) ==
    IF tree[<<>>].kind = "group"
    THEN [err |-> "", fields |-> AsFunction(IterStruct(tree, <<>>, squeeze_me))]
    ELSE [err |-> "AttributeError", fields |-> <<>>]

----------------------------------------------------------------------------
(* The exchange files *)

InFile(td) == <<td, "input_vars.mat">>

OutFile(td) == <<td, "output_vars.mat">>

CmdFile(td) == <<td, "commands.sh">>

\* savemat(infile, input_dict)
SaveMat(d) == [n \in Range(d) |-> InValue(n)]

NoData == <<>>

\* the keys loadmat adds for a version 5 file (written by save -v6, -v7)
MetaKeys(fmt) ==
    IF fmt = "4" THEN {} ELSE {"__header__", "__version__", "__globals__"}

MetaValue == [shape |-> <<>>, data |-> "meta"]

\* loadmat(outfile, squeeze_me=squeeze_me)
LoadMat(file, squeeze_me) ==
    [n \in DOMAIN file.vars \cup MetaKeys(file.fmt) |->
        IF n \in DOMAIN file.vars
        THEN [shape |-> IF squeeze_me THEN Squeeze(file.vars[n].shape)
                        ELSE file.vars[n].shape,
              data |-> file.vars[n].data]
        ELSE MetaValue]

\* the 7.3 loop of lines 244-248: the first exception, else the mapping
Load73(file, names, squeeze_me) ==
    LET conv == [k \in Range(names) |->
                    IF k \in DOMAIN file.vars
                    THEN Convert(file.vars[k], squeeze_me)
                    ELSE [err |-> "KeyError", fields |-> <<>>]]
        bad == {i \in 1..Len(names) : conv[names[i]].err # ""}
    IN  IF bad = {}
        THEN [err |-> "", value |-> [k \in Range(names) |-> conv[k].fields]]
        ELSE [err |-> conv[names[CHOOSE i \in bad : \A j \in bad : i <= j]].err,
              value |-> <<>>]

----------------------------------------------------------------------------
(* The interpreter, a black box run by the script *)

\* the function's first argument, when the call passes one the workspace holds
EffectiveOrder(a, d) ==
    IF ~HasInputs(d) THEN <<>>
    ELSE IF IsNone(a.input_order) THEN d ELSE Val(a.input_order)

HasPassSource(a, d) ==
    EffectiveOrder(a, d) # <<>> /\ Head(EffectiveOrder(a, d)) \in Range(d)

\* a version 7.3 file stores an array with its dimensions reversed
RECURSIVE Reverse(_)
Reverse(s) == IF s = <<>> THEN <<>> ELSE Append(Reverse(Tail(s)), Head(s))

ArrayTree(v) == [p \in {<<>>} |-> Dataset("double", Reverse(v.shape), v.data)]

StructTree ==
    [p \in {<<>>, <<"a">>} |->
        IF p = <<>> THEN GroupNode ELSE Dataset("double", <<1, 1>>, "a")]

Scalar == [shape |-> <<1, 1>>, data |-> "c"]

\* what save writes for each output name
Saved(fmt, names, v, kind) ==
    [fmt |-> fmt,
     vars |-> [n \in Range(names) |->
                 IF fmt = "7.3"
                 THEN (IF kind = "struct" THEN StructTree ELSE ArrayTree(v))
                 ELSE v]]

----------------------------------------------------------------------------
(* The callers and the calls *)

\* self.addpath is a sequence of paths: <<>> for None, one path for a str
Caller(oct, sct, jvm, disp, addpath, td) ==
    [use_octave |-> oct, single_comp_thread |-> sct, no_jvm |-> jvm,
     no_display |-> disp, addpath |-> addpath, tempdir |-> td]

\* __init__ with its defaults, tempdir given or not
Callers == {Caller(FALSE, TRUE, TRUE, TRUE, <<>>, td) :
              td \in {None, Some(SuppliedDir)}}

\* __init__ with every combination of the command's settings
CmdCallers ==
    {Caller(FALSE, t[1], t[2], t[3], ap, None) :
        t \in {<<TRUE, TRUE, TRUE>>, <<FALSE, TRUE, TRUE>>, <<TRUE, FALSE, TRUE>>,
               <<TRUE, TRUE, FALSE>>, <<FALSE, FALSE, FALSE>>},
        ap \in {<<>>, <<"/m", "/n">>}}
    \cup {Caller(TRUE, TRUE, TRUE, TRUE, ap, None) : ap \in {<<>>, <<"/m", "/n">>}}

RECURSIVE SeqsUpTo(_, _)
SeqsUpTo(S, n) ==
    IF n = 0 THEN {<<>>}
    ELSE SeqsUpTo(S, n - 1)
         \cup {Append(q, x) : q \in {r \in SeqsUpTo(S, n - 1) : Len(r) = n - 1},
                              x \in S}

CallArgs ==
    [input_dict : {<<>>, <<"X">>, <<"y", "X">>},
     input_order : {None, Some(<<"X", "y">>)},
     kwarg_names : {None},
     output_names : {None} \cup {Some(l) : l \in OutputLists},
     delete_inputs : {DelBool(FALSE), DelBool(TRUE), DelList(<<>>),
                      DelList(<<"X">>), DelList(<<"X", "y">>)},
     pre_call : {None},
     post_call : {None},
     squeeze_me : BOOLEAN,
     mat_version : Versions]

CmdArgs ==
    [input_dict : {<<>>, <<"X">>, <<"X", "y">>},
     input_order : {None} \cup {Some(o) : o \in SeqsUpTo(InputNames, MaxOrder)},
     kwarg_names : {None, Some({"y"})},
     output_names : {None} \cup {Some(l) : l \in OutputLists},
     delete_inputs : {DelBool(FALSE)},
     pre_call : {None, Some("tic")},
     post_call : {None, Some("toc")},
     squeeze_me : {TRUE},
     mat_version : {"7"}]

NoArgs ==
    [input_dict |-> <<>>, input_order |-> None, kwarg_names |-> None,
     output_names |-> None, delete_inputs |-> DelBool(FALSE),
     pre_call |-> None, post_call |-> None, squeeze_me |-> TRUE,
     mat_version |-> "7"]

----------------------------------------------------------------------------
(* MatlabCaller.call *)

\* where an exception raised inside the try block goes: the finally block
\* (faulty variant first: straight out of call)
AfterRaiseSkipsFinally == "returned"

AfterRaise == "finally"

\* lines 137-144: the workspace is made, result = None
Begin(a) ==
    /\ pc = "idle"
    /\ args' = a
    /\ input_dict' = a.input_dict
    /\ tempdir' = IF IsNone(self.tempdir) THEN FreshDir ELSE Val(self.tempdir)
    /\ dirs' = dirs \cup {tempdir'}
    /\ callstr' = ""
    /\ written' = {}
    /\ spawned' = 0
    /\ outcome' = ""
    /\ result' = None
    /\ exc' = ""
    /\ pc' = "try"
    /\ UNCHANGED <<py3, self, files, indata, outdata, h5Vars>>

\* lines 147-202: savemat writes the input file, callstr is assembled
Synthesize ==
    /\ pc = "try"
    /\ \E saveok \in BOOLEAN :
         LET e == SynthRaises(args, input_dict, saveok)
         IN  /\ exc' = e
             /\ pc' = IF e = "" THEN "synth" ELSE AfterRaise
             /\ callstr' = IF e = "" THEN CallString(self, args, input_dict, tempdir)
                           ELSE ""
             /\ indata' = IF HasInputs(input_dict) /\ saveok
                          THEN SaveMat(input_dict) ELSE indata
    /\ files' = IF HasInputs(input_dict) THEN files \cup {InFile(tempdir)} ELSE files
    /\ written' = IF HasInputs(input_dict) THEN written \cup {"input_vars.mat"}
                  ELSE written
    /\ UNCHANGED <<py3, self, args, input_dict, tempdir, dirs, outdata, spawned,
                   outcome, result, h5Vars>>

\* lines 205-213: the script is written
WriteScript ==
    /\ pc = "synth"
    /\ files' = files \cup {CmdFile(tempdir)}
    /\ written' = written \cup {"commands.sh"}
    /\ pc' = "script"
    /\ UNCHANGED <<py3, self, args, input_dict, tempdir, dirs, indata, outdata,
                   callstr, spawned, outcome, result, exc, h5Vars>>

\* lines 227-229: input_dict.pop(name) for each name, KeyError on a name
\* the mapping does not hold
RECURSIVE PopEach(_, _)
PopEach(d, names) ==
    IF names = <<>> THEN [dict |-> d, err |-> ""]
    ELSE IF Head(names) \notin Range(d) THEN [dict |-> d, err |-> "KeyError"]
    ELSE PopEach(SelectSeq(d, LAMBDA k : k # Head(names)), Tail(names))

\* lines 220-223: names is input_dict.keys(), a list in Python 2 and a view
\* in Python 3, where the iteration after the first pop raises RuntimeError
PopAll(d, p3) ==
    IF p3 /\ Len(d) > 0 THEN [dict |-> Tail(d), err |-> "RuntimeError"]
    ELSE [dict |-> <<>>, err |-> ""]

\* lines 216-229
DeleteInputs ==
    /\ pc = "script"
    /\ LET r == IF ~Truthy(args.delete_inputs) THEN [dict |-> input_dict, err |-> ""]
                ELSE IF args.delete_inputs.kind = "bool" THEN PopAll(input_dict, py3)
                ELSE PopEach(input_dict, args.delete_inputs.names)
       IN  /\ input_dict' = r.dict
           /\ exc' = r.err
           /\ pc' = IF r.err = "" THEN "deleted" ELSE AfterRaise
    /\ UNCHANGED <<py3, self, args, tempdir, dirs, files, indata, outdata, callstr,
                   written, spawned, outcome, result, h5Vars>>

\* lines 231-232: bash -l commands.sh.  The interpreter crashes, or runs the
\* function, which returns its first argument (a constant when it has none)
\* or a struct, and then the save statement when the command has one.
RunInterpreter ==
    /\ pc = "deleted"
    /\ spawned' = spawned + 1
    /\ \E o \in {"crash", "value", "struct"} :
         /\ o = "struct" => args.mat_version = "7.3"
         /\ outcome' = IF o = "value"
                       THEN (IF HasPassSource(args, args.input_dict)
                             THEN "passthrough" ELSE "const")
                       ELSE o
         /\ IF o # "crash" /\ Contains(callstr, " save -v")
            THEN /\ files' = files \cup {OutFile(tempdir)}
                 /\ outdata' =
                      Saved(args.mat_version, Val(args.output_names),
                            IF HasPassSource(args, args.input_dict)
                            THEN indata[Head(EffectiveOrder(args, args.input_dict))]
                            ELSE Scalar,
                            o)
            ELSE UNCHANGED <<files, outdata>>
    /\ pc' = "ran"
    /\ UNCHANGED <<py3, self, args, input_dict, tempdir, dirs, indata, callstr,
                   written, result, exc, h5Vars>>

\* lines 237-248
LoadResults ==
    /\ pc = "ran"
    /\ IF Len(Val(args.output_names)) > 0
       THEN IF OutFile(tempdir) \notin files
            THEN /\ exc' = "IOError"
                 /\ pc' = AfterRaise
                 /\ UNCHANGED result
            ELSE IF args.mat_version \in FlatVersions
            THEN /\ result' = Some(LoadMat(outdata, args.squeeze_me))
                 /\ pc' = "finally"
                 /\ UNCHANGED exc
            ELSE LET r == Load73(outdata, Val(args.output_names), args.squeeze_me)
                 IN  /\ exc' = r.err
                     /\ result' = IF r.err = "" THEN Some(r.value) ELSE Some(<<>>)
                     /\ pc' = IF r.err = "" THEN "finally" ELSE AfterRaise
       ELSE /\ pc' = "finally"
            /\ UNCHANGED <<result, exc>>
    /\ UNCHANGED <<py3, self, args, input_dict, tempdir, dirs, files, indata,
                   outdata, callstr, written, spawned, outcome, h5Vars>>

\* shutil.rmtree(tempdir): the directory and the files in it
RmTreeDirs(ds, td) == ds \ {td}

RmTreeFiles(fs, td) == {f \in fs : f[1] # td}

\* lines 250-253: the finally block, then the return or the re-raise
Cleanup ==
    /\ pc = "finally"
    /\ dirs' = RmTreeDirs(dirs, tempdir)
    /\ files' = RmTreeFiles(files, tempdir)
    /\ indata' = NoData
    /\ outdata' = NoData
    /\ pc' = "returned"
    /\ UNCHANGED <<py3, self, args, input_dict, tempdir, callstr, written,
                   spawned, outcome, result, exc, h5Vars>>

\* line 253 and after: the caller has the result (or the exception), and
\* the locals of call are gone
Return ==
    /\ pc = "returned"
    /\ pc' = "idle"
    /\ args' = NoArgs
    /\ input_dict' = <<>>
    /\ tempdir' = ""
    /\ callstr' = ""
    /\ written' = {}
    /\ spawned' = 0
    /\ outcome' = ""
    /\ result' = None
    /\ exc' = ""
    /\ UNCHANGED <<py3, self, dirs, files, indata, outdata, h5Vars>>

----------------------------------------------------------------------------
(* The decode of one version 7.3 variable *)

Keys == {"a", "b", "#refs#", "_m"}

Nodes == {GroupNode, Dataset("double", <<1, 2>>, "d"),
          Dataset("object", <<1, 1>>, "o")}

NoResult == [err |-> "pending", fields |-> <<>>]

H5Idle ==
    /\ h5 = [p \in {<<>>} |-> GroupNode]
    /\ h5sq = TRUE
    /\ h5res = NoResult
    /\ h5pc = "idle"

\* the interpreter's save -v7.3 adds a node to the variable's tree
H5Add ==
    /\ h5pc = "build"
    /\ Cardinality(DOMAIN h5) < MaxNodes
    /\ \E p \in DOMAIN h5, k \in Keys, n \in Nodes :
         /\ h5[p].kind = "group"
         /\ Append(p, k) \notin DOMAIN h5
         /\ h5' = [q \in DOMAIN h5 \cup {Append(p, k)} |->
                     IF q \in DOMAIN h5 THEN h5[q] ELSE n]
    /\ UNCHANGED <<h5sq, h5res, h5pc, callVars>>

\* line 246: convert_mat_7_3_to_struct(outfile, k, squeeze_me=squeeze_me)
H5Decode ==
    /\ h5pc = "build"
    /\ h5res' = Convert(h5, h5sq)
    /\ h5pc' = "done"
    /\ UNCHANGED <<h5, h5sq, callVars>>

----------------------------------------------------------------------------
(* Specifications *)

CallIdle ==
    /\ pc = "idle"
    /\ args = NoArgs
    /\ input_dict = <<>>
    /\ tempdir = ""
    /\ indata = NoData
    /\ outdata = NoData
    /\ callstr = ""
    /\ written = {}
    /\ spawned = 0
    /\ outcome = ""
    /\ result = None
    /\ exc = ""

\* a caller, on a disk where a supplied workspace may exist with a file in it
Init ==
    /\ CallIdle
    /\ py3 \in BOOLEAN
    /\ self \in Callers
    /\ \E stale \in BOOLEAN :
         /\ dirs = IF stale /\ ~IsNone(self.tempdir) THEN {SuppliedDir} ELSE {}
         /\ files = IF stale /\ ~IsNone(self.tempdir)
                    THEN {<<SuppliedDir, "stale.dat">>} ELSE {}
    /\ H5Idle

Next ==
    \/ \E a \in CallArgs : Begin(a)
    \/ Synthesize
    \/ WriteScript
    \/ DeleteInputs
    \/ RunInterpreter
    \/ LoadResults
    \/ Cleanup
    \/ Return

Spec == Init /\ [][Next]_vars

\* the command synthesis over every setting of the caller and of the call
InitCmd ==
    /\ CallIdle
    /\ py3 = TRUE
    /\ self \in CmdCallers
    /\ dirs = {}
    /\ files = {}
    /\ H5Idle

NextCmd ==
    \/ \E a \in CmdArgs : Begin(a)
    \/ Synthesize

SpecCmd == InitCmd /\ [][NextCmd]_vars

\* the decode of a version 7.3 variable over every small tree
InitDecode ==
    /\ CallIdle
    /\ py3 = TRUE
    /\ self = Caller(FALSE, TRUE, TRUE, TRUE, <<>>, None)
    /\ dirs = {}
    /\ files = {}
    /\ h5 \in {[p \in {<<>>} |-> n] : n \in Nodes}
    /\ h5sq \in BOOLEAN
    /\ h5res = NoResult
    /\ h5pc = "build"

NextDecode ==
    \/ H5Add
    \/ H5Decode

SpecDecode == InitDecode /\ [][NextDecode]_vars

----------------------------------------------------------------------------
(* Reading a synthesized command back *)

Min(S) == CHOOSE i \in S : \A j \in S : i <= j

\* s.split(",")
RECURSIVE SplitComma(_)
SplitComma(s) ==
    IF ~Contains(s, ",") THEN <<s>>
    ELSE LET i == Min(Occurrences(s, ","))
         IN  <<SubSeq(s, 1, i - 1)>> \o SplitComma(SubSeq(s, i + 1, Len(s)))

\* the text between "do_something(" and the next ");"
ArgListOf(cs) ==
    LET start == Min(Occurrences(cs, func \o "(")) + Len(func) + 1
        stop == Min({j \in Occurrences(cs, ");") : j >= start})
    IN  SubSeq(cs, start, stop - 1)

\* the entries of the command's argument list, none for an empty list
Entries(cs) == IF ArgListOf(cs) = "" THEN <<>> ELSE SplitComma(ArgListOf(cs))

Quoted(n) == "'" \o n \o "'"

IsBare(e) == ~StartsWith(e, "'")

\* the entries of an argument list that are not the quoted half of a pair
BareEntries(entries) == SelectSeq(entries, IsBare)

\* every bare entry is preceded by its quoted name exactly when it is in kw
PairsRight(entries, kw) ==
    \A i \in 1..Len(entries) :
        /\ IsBare(entries[i]) =>
             ((entries[i] \in kw) <=> (i > 1 /\ entries[i - 1] = Quoted(entries[i])))
        /\ ~IsBare(entries[i]) =>
             (i < Len(entries) /\ entries[i] = Quoted(entries[i + 1]))

KwSet(a) == IF IsNone(a.kwarg_names) THEN {} ELSE Val(a.kwarg_names)

OnceEach(names, entries) ==
    \A n \in names : Cardinality({i \in 1..Len(entries) : entries[i] = n}) = 1

IsPermutation(order, d) ==
    Len(order) = Len(d) /\ Range(order) = Range(d)
    /\ Cardinality(Range(order)) = Len(order)

OneLoad(cs, td) ==
    /\ Cardinality(Occurrences(cs, "load ")) = 1
    /\ Contains(cs, "load " \o td \o "/input_vars.mat;")

DefaultCaller == Caller(FALSE, TRUE, TRUE, TRUE, <<>>, None)

\* two arrays hold the same values, dimensions of length 1 aside
SameArray(v, w) == v.data = w.data /\ Squeeze(v.shape) = Squeeze(w.shape)

\* delete_inputs as documented: the mapping after the call
KeptInputs(d, del) ==
    IF ~Truthy(del) THEN d
    ELSE IF del.kind = "bool" THEN <<>>
    ELSE SelectSeq(d, LAMBDA k : k \notin Range(del.names))

IsMetaKey(k) == Len(k) > 0 /\ SubSeq(k, 1, 1) \in {"#", "_"}

IsOpaque(n) == n.kind = "dataset" /\ n.dtype = "object"

OpaqueLeaves(tree) == {p \in DOMAIN tree : IsOpaque(tree[p])}

\* the fields below the variable that no metadata name leads to or names,
\* the opaque leaves aside
ExpectedFields(tree) ==
    {p \in DOMAIN tree :
        /\ p # <<>>
        /\ \A i \in 1..Len(p) : ~IsMetaKey(p[i])
        /\ ~IsOpaque(tree[p])}

----------------------------------------------------------------------------
(* The claims *)

\* C1: when a call has returned or raised, its workspace directory does not
\* exist and no file of it exists, whatever path the call took and whether
\* the workspace was supplied or fresh.
C1_WorkspaceRemoved ==
    pc = "returned" =>
        /\ tempdir \notin dirs
        /\ \A f \in files : f[1] # tempdir

\* C1 witness: a call on a supplied workspace raised after its script and
\* input file were written.
C1_Witness ==
    /\ pc = "returned"
    /\ exc # ""
    /\ ~IsNone(self.tempdir)
    /\ written = {"input_vars.mat", "commands.sh"}

\* C2 as claimed: a call with an unsupported exchange version, whatever its
\* inputs (which serialize) and its output-name list, fails, and has then
\* written no file and spawned no process.
C2_InvalidVersionFailsBeforeIO ==
    (/\ pc = "finally"
     /\ args.mat_version \notin ValidVersions
     /\ ~IsNone(args.output_names)
     /\ exc # "SerializationError") =>
        /\ exc # ""
        /\ written = {}
        /\ spawned = 0

\* C3 as claimed: a call that requests no outputs (None or an empty list),
\* whose inputs serialize and are not deleted, synthesizes a command with no
\* output prefix and no save statement that ends with the exit statement,
\* runs the script, and neither creates nor reads an output file.
C3_NoOutputsFireAndForget ==
    (/\ pc = "finally"
     /\ ~WantsOutputs(args)
     /\ ~Truthy(args.delete_inputs)
     /\ exc # "SerializationError") =>
        /\ exc = ""
        /\ spawned = 1
        /\ ~Contains(callstr, "] = ")
        /\ ~Contains(callstr, " save ")
        /\ EndsWith(callstr, " exit()\"")
        /\ OutFile(tempdir) \notin files
        /\ IsNone(result)

\* C4 as claimed: for a non-empty input mapping the command has exactly one
\* load statement, of <workspace>/input_vars.mat, and the argument list
\* holds each input name exactly once, in input_order (the key order when
\* omitted), comma separated with no trailing comma, quoted pairs for the
\* names in kwarg_names and bare names otherwise.
C4_EachInputOnce ==
    (pc = "synth" /\ HasInputs(args.input_dict)) =>
        LET entries == Entries(callstr)
        IN  /\ OneLoad(callstr, tempdir)
            /\ BareEntries(entries) = EffectiveOrder(args, args.input_dict)
            /\ PairsRight(entries, KwSet(args))
            /\ OnceEach(Range(args.input_dict), entries)

\* C4 amended: the argument list holds one entry per element of input_order
\* (of the key order when omitted), in that order, with no trailing comma
\* and the pairs as claimed; each input name is there exactly once when
\* input_order is omitted or a permutation of the mapping's keys.
C4_EntriesFollowOrder ==
    (pc = "synth" /\ HasInputs(args.input_dict)) =>
        LET entries == Entries(callstr)
            order == EffectiveOrder(args, args.input_dict)
        IN  /\ OneLoad(callstr, tempdir)
            /\ BareEntries(entries) = order
            /\ PairsRight(entries, KwSet(args))
            /\ (IsNone(args.input_order) \/ IsPermutation(order, args.input_dict))
                 => OnceEach(Range(args.input_dict), entries)

\* C4 witness: two inputs in an order that is not the key order, one of them
\* a keyword argument.
C4_Witness ==
    /\ pc = "synth"
    /\ args.input_dict = <<"X", "y">>
    /\ args.input_order = Some(<<"y", "X">>)
    /\ args.kwarg_names = Some({"y"})
    /\ ArgListOf(callstr) = "'y',y,X"

\* C5 as claimed: when the interpreter ran a function that copies its input
\* to every requested output, call returns under each output name a value
\* equal to that input, for the flat versions and for version 7.3.
C5_RoundTrip ==
    (pc = "finally" /\ outcome = "passthrough" /\ WantsOutputs(args)) =>
        /\ exc = ""
        /\ ~IsNone(result)
        /\ \A n \in Range(Val(args.output_names)) :
             /\ n \in DOMAIN Val(result)
             /\ SameArray(Val(result)[n],
                          InValue(Head(EffectiveOrder(args, args.input_dict))))

\* C6 as claimed: a successful call with a flat version returns a mapping
\* whose keys are exactly the requested output names.
C6_FlatResultKeys ==
    (/\ pc = "returned"
     /\ exc = ""
     /\ WantsOutputs(args)
     /\ args.mat_version \in FlatVersions) =>
        /\ ~IsNone(result)
        /\ DOMAIN Val(result) = Range(Val(args.output_names))

C7_Case ==
    /\ pc = "synth"
    /\ self = DefaultCaller
    /\ args.input_dict = <<"X", "y">>
    /\ args.input_order = Some(<<"X", "y">>)
    /\ args.kwarg_names = None
    /\ args.output_names = Some(<<"z">>)
    /\ args.pre_call = None
    /\ args.post_call = None
    /\ args.mat_version = "7"

\* C7 as claimed: the self-test's call synthesizes the command with the
\* output target "[z, ]" and the save statement "... z ;".
C7_CommandAsClaimed ==
    C7_Case =>
        callstr = "matlab -nosplash -singleCompThread -nojvm -nodisplay -r \"load "
                  \o tempdir \o "/input_vars.mat; [z, ] = do_something(X,y); save -v7 "
                  \o tempdir \o "/output_vars.mat z ; exit()\""

\* C7 amended: the self-test's call synthesizes the command with the output
\* target "[z]" and the save statement "... z;".
C7_CommandExact ==
    C7_Case =>
        callstr = "matlab -nosplash -singleCompThread -nojvm -nodisplay -r \"load "
                  \o tempdir \o "/input_vars.mat; [z] = do_something(X,y); save -v7 "
                  \o tempdir \o "/output_vars.mat z; exit()\""

\* C7 witness: the self-test's call has synthesized its command.
C7_Witness == C7_Case /\ Contains(callstr, "do_something(X,y);")

\* the names a delete_inputs list gives are bindings of the mapping
NamesBound(a) == Range(a.delete_inputs.names) \subseteq Range(a.input_dict)

\* C8 as claimed: once the script is written and the delete step is past
\* (the policy false, true, or a list of names the mapping binds), the
\* caller's mapping holds exactly the bindings the policy keeps, the
\* mapping changes only after the input file is written, and a call that
\* got there goes on to spawn the interpreter.
C8_DeleteInputsPolicy ==
    /\ (/\ pc \in {"deleted", "ran", "finally", "returned"}
        /\ "commands.sh" \in written
        /\ NamesBound(args)) =>
          /\ input_dict = KeptInputs(args.input_dict, args.delete_inputs)
          /\ pc \in {"finally", "returned"} => spawned = 1
    /\ input_dict # args.input_dict =>
          ("input_vars.mat" \in written /\ "commands.sh" \in written)

\* C9: the decode of a version 7.3 struct whose tree holds one opaque leaf
\* raises nothing and returns exactly the fields that no metadata name
\* hides, at every depth, less the opaque leaf.
C9_OpaqueLeafSkipped ==
    (/\ h5pc = "done"
     /\ h5[<<>>].kind = "group"
     /\ Cardinality(OpaqueLeaves(h5)) = 1) =>
        /\ h5res.err = ""
        /\ DOMAIN h5res.fields = ExpectedFields(h5)

\* C9 witness: a nested group holding the opaque leaf beside a numeric leaf,
\* which was decoded.
C9_Witness ==
    /\ h5pc = "done"
    /\ OpaqueLeaves(h5) = {<<"a", "b">>}
    /\ <<"a", "a">> \in DOMAIN h5
    /\ h5[<<"a", "a">>].dtype = "double"
    /\ <<"a", "a">> \in DOMAIN h5res.fields

\* C10 as claimed: every leaf of the decoded record, at every depth, is
\* squeezed exactly when squeeze_me is true.
C10_SqueezeUniform ==
    (h5pc = "done" /\ h5res.err = "") =>
        \A p \in DOMAIN h5res.fields :
            h5res.fields[p].kind = "array" =>
                h5res.fields[p].shape =
                    IF h5sq THEN Squeeze(h5[p].shape) ELSE h5[p].shape

====
